---- MODULE Spec2Model ----
(***************************************************************************)
(* A model of goedesearch's engine (src/src/engine.rs) and of its text     *)
(* filters (src/src/filters.rs).                                           *)
(*                                                                         *)
(* Text is a sequence of one-character strings.  Document ids are the      *)
(* decimal spellings of the u64 values, kept as strings because they do    *)
(* not fit the model checker's integers; the engine only hashes and compares*)
(* them.  Term frequencies are the f64 counts 1.0, 2.0, ... kept as        *)
(* naturals.  Scores are kept in millionths (see Log10Micro).  An Option   *)
(* is a sequence of length 0 (None) or 1 (Some).                           *)
(***************************************************************************)
EXTENDS Integers, Sequences, FiniteSets, TLC

\* Bounds of the model.
MaxRecords == 2
MaxQueryWords == 2

VARIABLES
    pc,         \* from_file: "loading", "ready" (returned Ok(index)), "panicked"
    article,    \* from_file's local `article: Option<Article>`
    documents,  \* Index.documents
    freq,       \* Index.freq
    index,      \* Index.index
    nrecords,   \* number of </doc> events handled, i.e. index_document calls
    seenUrls,   \* the URLs carried by the records closed so far
    dupUrl,     \* some closed record carried a URL an earlier one carried
    ret         \* the last operation: its name, its input and what came of it

vars == <<pc, article, documents, freq, index, nrecords, seenUrls, dupUrl, ret>>
ixvars == <<documents, freq, index>>

----------------------------------------------------------------------------
\* Helpers on sequences and functions.

Put(f, k, v) == [x \in DOMAIN f \cup {k} |-> IF x = k THEN v ELSE f[x]]

Range(s) == {s[i] : i \in DOMAIN s}

TupleOf(n, S) == [1..n -> S]

SeqsUpTo(n, S) == UNION {TupleOf(k, S) : k \in 0..n}

RECURSIVE Join(_)
\* The words of ws separated by single spaces.
Join(ws) ==
    IF ws = <<>> THEN <<>>
    ELSE IF Len(ws) = 1 THEN ws[1]
    ELSE ws[1] \o <<" ">> \o Join(Tail(ws))

\* All orders in which the elements of the finite set S can be visited.
Orders(S) ==
    {o \in TupleOf(Cardinality(S), S) : \A i, j \in DOMAIN o : i # j => o[i] # o[j]}

----------------------------------------------------------------------------
\* filters.rs

STOPWORDS ==
    { <<"t","h","e">>, <<"b","e">>, <<"t","o">>, <<"o","f">>, <<"a","n","d">>,
      <<"a">>, <<"i","n">>, <<"t","h","a","t">>, <<"h","a","v","e">>, <<"i">>,
      <<"i","t">>, <<"f","o","r">>, <<"n","o","t">>, <<"o","n">>,
      <<"w","i","t","h">>, <<"h","e">>, <<"a","s">>, <<"y","o","u">>,
      <<"d","o">>, <<"a","t">>, <<"t","h","i","s">>, <<"b","u","t">>,
      <<"h","i","s">>, <<"b","y">>, <<"f","r","o","m">>,
      <<"w","i","k","i","p","e","d","i","a">> }

RECURSIVE tokenize(_)
\* text.split(' '): one piece more than there are spaces, so the empty text gives one empty piece.
tokenize(text) ==
    IF \A i \in DOMAIN text : text[i] # " " THEN <<text>>
    ELSE LET k == CHOOSE i \in DOMAIN text :
                      text[i] = " " /\ \A j \in 1..(i-1) : text[j] # " "
         IN  <<SubSeq(text, 1, k - 1)>> \o tokenize(SubSeq(text, k + 1, Len(text)))

UpperCase == <<"A","B","C","D","E","F","G","H","I","J","K","L","M",
               "N","O","P","Q","R","S","T","U","V","W","X","Y","Z">>
LowerCase == <<"a","b","c","d","e","f","g","h","i","j","k","l","m",
               "n","o","p","q","r","s","t","u","v","w","x","y","z">>

\* char::to_lowercase on the ASCII range.
ToLower(c) ==
    IF \E i \in DOMAIN UpperCase : UpperCase[i] = c
    THEN LowerCase[CHOOSE i \in DOMAIN UpperCase : UpperCase[i] = c]
    ELSE c

lowercase(tokens) ==
    [i \in DOMAIN tokens |-> [j \in DOMAIN tokens[i] |-> ToLower(tokens[i][j])]]

\* char::is_ascii_punctuation.  The grave accent cannot be written in a string of
\* this language and goes by its name.
AsciiPunctuation ==
    { "!", "\"", "#", "$", "%", "&", "'", "(", ")", "*", "+", ",", "-", ".",
      "/", ":", ";", "<", "=", ">", "?", "@", "[", "\\", "]", "^", "_", "GRAVE",
      "{", "|", "}", "~" }

NotPunctuation(c) == c \notin AsciiPunctuation

punctuation(tokens) ==
    [i \in DOMAIN tokens |-> SelectSeq(tokens[i], NotPunctuation)]

NotStopword(token) == token \notin STOPWORDS

stopwords(tokens) == SelectSeq(tokens, NotStopword)

----------------------------------------------------------------------------
\* rust_stemmers' Algorithm::English (the Snowball English stemmer) on what filter
\* hands it: lower-case tokens without apostrophes (punctuation is gone by
\* then, so the stemmer's apostrophe rules never apply).  A word is a sequence
\* of characters; p1 and p2 are the numbers of characters before the regions
\* R1 and R2, fixed before the first step.

Vowels == {"a", "e", "i", "o", "u", "y"}

EndsWith(w, suf) ==
    /\ Len(w) >= Len(suf)
    /\ SubSeq(w, Len(w) - Len(suf) + 1, Len(w)) = suf

StartsWith(w, pre) ==
    /\ Len(w) >= Len(pre)
    /\ SubSeq(w, 1, Len(pre)) = pre

DropLast(w, n) == SubSeq(w, 1, Len(w) - n)

Min(S) == CHOOSE x \in S : \A y \in S : x <= y

\* The entry of a suffix table (pairs of suffix and replacement) with the
\* longest suffix the word ends in, as a sequence of zero or one entries.
Longest(w, pairs) ==
    LET hits == {p \in pairs : EndsWith(w, p[1])}
    IN  IF hits = {} THEN <<>>
        ELSE <<CHOOSE p \in hits : \A q \in hits : Len(q[1]) <= Len(p[1])>>

\* Whole words with a fixed stem.
Exception1 ==
    {
      <<<<"s","k","i","s">>, <<"s","k","i">>>>,
      <<<<"s","k","i","e","s">>, <<"s","k","y">>>>,
      <<<<"d","y","i","n","g">>, <<"d","i","e">>>>,
      <<<<"l","y","i","n","g">>, <<"l","i","e">>>>,
      <<<<"t","y","i","n","g">>, <<"t","i","e">>>>,
      <<<<"i","d","l","y">>, <<"i","d","l">>>>,
      <<<<"g","e","n","t","l","y">>, <<"g","e","n","t","l">>>>,
      <<<<"u","g","l","y">>, <<"u","g","l","i">>>>,
      <<<<"e","a","r","l","y">>, <<"e","a","r","l","i">>>>,
      <<<<"o","n","l","y">>, <<"o","n","l","i">>>>,
      <<<<"s","i","n","g","l","y">>, <<"s","i","n","g","l">>>>,
      <<<<"s","k","y">>, <<"s","k","y">>>>,
      <<<<"n","e","w","s">>, <<"n","e","w","s">>>>,
      <<<<"h","o","w","e">>, <<"h","o","w","e">>>>,
      <<<<"a","t","l","a","s">>, <<"a","t","l","a","s">>>>,
      <<<<"c","o","s","m","o","s">>, <<"c","o","s","m","o","s">>>>,
      <<<<"b","i","a","s">>, <<"b","i","a","s">>>>,
      <<<<"a","n","d","e","s">>, <<"a","n","d","e","s">>>> }

\* Whole words left alone after step 1a.
Exception2 ==
    {
      <<"i","n","n","i","n","g">>, <<"o","u","t","i","n","g">>,
      <<"c","a","n","n","i","n","g">>, <<"h","e","r","r","i","n","g">>,
      <<"e","a","r","r","i","n","g">>, <<"p","r","o","c","e","e","d">>,
      <<"e","x","c","e","e","d">>, <<"s","u","c","c","e","e","d">> }

RECURSIVE MarkY(_, _)
\* The prelude: an initial y, and a y after a vowel, become the consonant Y.
MarkY(w, i) ==
    IF i > Len(w) THEN w
    ELSE IF i = 1 /\ w[1] = "y" THEN MarkY([w EXCEPT ![1] = "Y"], 1)
    ELSE IF i < Len(w) /\ w[i] \in Vowels /\ w[i + 1] = "y"
         THEN MarkY([w EXCEPT ![i + 1] = "Y"], i + 2)
    ELSE MarkY(w, i + 1)

\* The postlude: Y becomes y again.
UnmarkY(w) == [i \in DOMAIN w |-> IF w[i] = "Y" THEN "y" ELSE w[i]]

\* The offset just after the first non-vowel that follows a vowel, looking
\* from offset `from` on; the length of the word when there is none.
AfterVowelNonVowel(w, from) ==
    LET vs == {i \in (from + 1)..Len(w) : w[i] \in Vowels}
    IN  IF vs = {} THEN Len(w)
        ELSE LET ns == {i \in (Min(vs) + 1)..Len(w) : w[i] \notin Vowels}
             IN  IF ns = {} THEN Len(w) ELSE Min(ns)

P1(w) ==
    IF StartsWith(w, <<"c","o","m","m","u","n">>) THEN 6
    ELSE IF StartsWith(w, <<"g","e","n","e","r">>)
            \/ StartsWith(w, <<"a","r","s","e","n">>) THEN 5
    ELSE AfterVowelNonVowel(w, 0)

P2(w) == AfterVowelNonVowel(w, P1(w))

\* The suffix of length n lies in the region that starts at offset p.
InRegion(w, n, p) == Len(w) - n >= p

\* The word ends in a short syllable.
ShortV(w) ==
    LET n == Len(w)
    IN  \/ /\ n >= 3
           /\ w[n] \notin Vowels \cup {"w", "x", "Y"}
           /\ w[n - 1] \in Vowels
           /\ w[n - 2] \notin Vowels
        \/ /\ n = 2
           /\ w[2] \notin Vowels
           /\ w[1] \in Vowels

\* Step 1a: sses -> ss; ied, ies -> i (ie after a single letter); us, ss stay;
\* a final s goes when the part before it has a vowel that is not the letter
\* right before the s.
Step1a(w) ==
    IF EndsWith(w, <<"s","s","e","s">>) THEN DropLast(w, 2)
    ELSE IF EndsWith(w, <<"i","e","d">>) \/ EndsWith(w, <<"i","e","s">>)
         THEN IF Len(w) > 4 THEN DropLast(w, 2) ELSE DropLast(w, 1)
    ELSE IF EndsWith(w, <<"u","s">>) \/ EndsWith(w, <<"s","s">>) THEN w
    ELSE IF EndsWith(w, <<"s">>)
         THEN IF \E i \in 1..(Len(w) - 2) : w[i] \in Vowels
              THEN DropLast(w, 1) ELSE w
    ELSE w

Step1bSuffixes ==
    {
      <<<<"e","e","d">>, <<"e","e">>>>, <<<<"e","e","d","l","y">>, <<"e","e">>>>,
      <<<<"e","d">>, <<>>>>, <<<<"e","d","l","y">>, <<>>>>,
      <<<<"i","n","g">>, <<>>>>, <<<<"i","n","g","l","y">>, <<>>>> }

Doubles ==
    {
      <<"b","b">>, <<"d","d">>, <<"f","f">>, <<"g","g">>, <<"m","m">>, <<"n","n">>,
      <<"p","p">>, <<"r","r">>, <<"t","t">> }

\* Step 1b: eed, eedly -> ee in R1; ed, edly, ing, ingly go when a vowel comes
\* before them, and the rest is then mended.
Step1b(w, p1) ==
    LET hit == Longest(w, Step1bSuffixes)
    IN  IF hit = <<>> THEN w
        ELSE LET suf == hit[1][1]
                 pre == DropLast(w, Len(suf))
             IN  IF hit[1][2] # <<>>
                 THEN IF InRegion(w, Len(suf), p1) THEN pre \o hit[1][2] ELSE w
                 ELSE IF \A i \in DOMAIN pre : pre[i] \notin Vowels THEN w
                 ELSE IF \/ EndsWith(pre, <<"a","t">>)
                         \/ EndsWith(pre, <<"b","l">>)
                         \/ EndsWith(pre, <<"i","z">>) THEN Append(pre, "e")
                 ELSE IF \E dd \in Doubles : EndsWith(pre, dd) THEN DropLast(pre, 1)
                 ELSE IF Len(pre) = p1 /\ ShortV(pre) THEN Append(pre, "e")
                 ELSE pre

\* Step 1c: a final y or Y becomes i after a non-vowel that is not the first
\* letter.
Step1c(w) ==
    LET n == Len(w)
    IN  IF n >= 3 /\ w[n] \in {"y", "Y"} /\ w[n - 1] \notin Vowels
        THEN [w EXCEPT ![n] = "i"] ELSE w

Step2Suffixes ==
    {
      <<<<"t","i","o","n","a","l">>, <<"t","i","o","n">>>>,
      <<<<"e","n","c","i">>, <<"e","n","c","e">>>>,
      <<<<"a","n","c","i">>, <<"a","n","c","e">>>>,
      <<<<"a","b","l","i">>, <<"a","b","l","e">>>>,
      <<<<"e","n","t","l","i">>, <<"e","n","t">>>>,
      <<<<"i","z","e","r">>, <<"i","z","e">>>>,
      <<<<"i","z","a","t","i","o","n">>, <<"i","z","e">>>>,
      <<<<"a","t","i","o","n","a","l">>, <<"a","t","e">>>>,
      <<<<"a","t","i","o","n">>, <<"a","t","e">>>>,
      <<<<"a","t","o","r">>, <<"a","t","e">>>>,
      <<<<"a","l","i","s","m">>, <<"a","l">>>>,
      <<<<"a","l","i","t","i">>, <<"a","l">>>>, <<<<"a","l","l","i">>, <<"a","l">>>>,
      <<<<"f","u","l","n","e","s","s">>, <<"f","u","l">>>>,
      <<<<"o","u","s","l","i">>, <<"o","u","s">>>>,
      <<<<"o","u","s","n","e","s","s">>, <<"o","u","s">>>>,
      <<<<"i","v","e","n","e","s","s">>, <<"i","v","e">>>>,
      <<<<"i","v","i","t","i">>, <<"i","v","e">>>>,
      <<<<"b","i","l","i","t","i">>, <<"b","l","e">>>>,
      <<<<"b","l","i">>, <<"b","l","e">>>>, <<<<"o","g","i">>, <<"o","g">>>>,
      <<<<"f","u","l","l","i">>, <<"f","u","l">>>>,
      <<<<"l","e","s","s","l","i">>, <<"l","e","s","s">>>>, <<<<"l","i">>, <<>>>> }

ValidLi == {"c", "d", "e", "g", "h", "k", "m", "n", "r", "t"}

Step2(w, p1) ==
    LET hit == Longest(w, Step2Suffixes)
    IN  IF hit = <<>> THEN w
        ELSE LET suf == hit[1][1]
                 pre == DropLast(w, Len(suf))
             IN  IF ~InRegion(w, Len(suf), p1) THEN w
                 ELSE IF suf = <<"o","g","i">>
                      THEN IF EndsWith(pre, <<"l">>) THEN pre \o hit[1][2] ELSE w
                 ELSE IF suf = <<"l","i">>
                      THEN IF pre # <<>> /\ pre[Len(pre)] \in ValidLi THEN pre ELSE w
                 ELSE pre \o hit[1][2]

Step3Suffixes ==
    {
      <<<<"t","i","o","n","a","l">>, <<"t","i","o","n">>>>,
      <<<<"a","t","i","o","n","a","l">>, <<"a","t","e">>>>,
      <<<<"a","l","i","z","e">>, <<"a","l">>>>,
      <<<<"i","c","a","t","e">>, <<"i","c">>>>,
      <<<<"i","c","i","t","i">>, <<"i","c">>>>, <<<<"i","c","a","l">>, <<"i","c">>>>,
      <<<<"f","u","l">>, <<>>>>, <<<<"n","e","s","s">>, <<>>>>,
      <<<<"a","t","i","v","e">>, <<>>>> }

Step3(w, p1, p2) ==
    LET hit == Longest(w, Step3Suffixes)
    IN  IF hit = <<>> THEN w
        ELSE LET suf == hit[1][1]
                 pre == DropLast(w, Len(suf))
             IN  IF ~InRegion(w, Len(suf), p1) THEN w
                 ELSE IF suf = <<"a","t","i","v","e">>
                      THEN IF InRegion(w, Len(suf), p2) THEN pre ELSE w
                 ELSE pre \o hit[1][2]

Step4Suffixes ==
    {
      <<<<"a","l">>, <<>>>>, <<<<"a","n","c","e">>, <<>>>>,
      <<<<"e","n","c","e">>, <<>>>>, <<<<"e","r">>, <<>>>>, <<<<"i","c">>, <<>>>>,
      <<<<"a","b","l","e">>, <<>>>>, <<<<"i","b","l","e">>, <<>>>>,
      <<<<"a","n","t">>, <<>>>>, <<<<"e","m","e","n","t">>, <<>>>>,
      <<<<"m","e","n","t">>, <<>>>>, <<<<"e","n","t">>, <<>>>>,
      <<<<"i","s","m">>, <<>>>>, <<<<"a","t","e">>, <<>>>>,
      <<<<"i","t","i">>, <<>>>>, <<<<"o","u","s">>, <<>>>>,
      <<<<"i","v","e">>, <<>>>>, <<<<"i","z","e">>, <<>>>>, <<<<"i","o","n">>, <<>>>> }

Step4(w, p2) ==
    LET hit == Longest(w, Step4Suffixes)
    IN  IF hit = <<>> THEN w
        ELSE LET suf == hit[1][1]
                 pre == DropLast(w, Len(suf))
             IN  IF ~InRegion(w, Len(suf), p2) THEN w
                 ELSE IF suf = <<"i","o","n">>
                      THEN IF pre # <<>> /\ pre[Len(pre)] \in {"s", "t"} THEN pre ELSE w
                 ELSE pre

\* Step 5: a final e goes in R2, or in R1 when no short syllable comes before
\* it; a final l goes in R2 after another l.
Step5(w, p1, p2) ==
    IF EndsWith(w, <<"e">>)
    THEN IF \/ InRegion(w, 1, p2)
            \/ (InRegion(w, 1, p1) /\ ~ShortV(DropLast(w, 1)))
         THEN DropLast(w, 1) ELSE w
    ELSE IF EndsWith(w, <<"l">>)
    THEN IF InRegion(w, 1, p2) /\ EndsWith(w, <<"l","l">>) THEN DropLast(w, 1) ELSE w
    ELSE w

stem(token) ==
    IF \E e \in Exception1 : e[1] = token
    THEN (CHOOSE e \in Exception1 : e[1] = token)[2]
    ELSE IF Len(token) <= 2 THEN token
    ELSE LET w == MarkY(token, 1)
             p1 == P1(w)
             p2 == P2(w)
             a == Step1a(w)
         IN  IF a \in Exception2 THEN UnmarkY(a)
             ELSE UnmarkY(Step5(Step4(Step3(Step2(Step1c(Step1b(a, p1)), p1),
                                            p1, p2), p2), p1, p2))

stems(tokens) == [i \in DOMAIN tokens |-> stem(tokens[i])]

filter(text) == stems(stopwords(punctuation(lowercase(tokenize(text)))))

----------------------------------------------------------------------------
\* engine.rs: Article

\* What the feed's <url> elements may hold.
UrlTexts == {"http://a/", "HTTP://A", "http://b/", "not a url"}

ParseError == "ParseError"

\* Url::parse followed by Url::as_str: the serialisation lower-cases scheme and
\* host and gives an empty path the form of a single slash; text without a scheme is an error.
UrlParse(u) ==
    CASE u = "http://a/" -> "http://a/"
      [] u = "HTTP://A"  -> "http://a/"
      [] u = "http://b/" -> "http://b/"
      [] OTHER           -> ParseError

\* crc64::Digest::new(crc64::ECMA) over the bytes of the serialised URL.
Crc64(s) ==
    CASE s = "http://a/" -> "1293099679427272530"
      [] s = "http://b/" -> "17062320362825321541"

ArticleDefault == [id |-> <<>>, title |-> <<>>, abstract |-> <<>>, url |-> <<>>]

\* Article::id
id(a) == IF a.id = <<>> THEN "0" ELSE a.id[1]

\* Article::set_url once Url::parse has succeeded with `url`.
set_url(a, url) == [a EXCEPT !.url = <<url>>, !.id = <<Crc64(url)>>]

\* Article::fulltext
fulltext(a) == a.title \o <<" ">> \o a.abstract

----------------------------------------------------------------------------
\* engine.rs: Index

\* Index::size
size == Cardinality(DOMAIN documents)

\* Index::document
document(d) == IF d \in DOMAIN documents THEN <<documents[d]>> ELSE <<>>

RECURSIVE IndexTokens_SetsOne(_, _, _, _)
\* IndexTokens with the else branch lost: a repeated token is stored as 1 again.
IndexTokens_SetsOne(d, tokens, fr, ix) ==
    IF tokens = <<>> THEN [freq |-> fr, index |-> ix]
    ELSE LET token == Head(tokens)
             fr1 == Put(fr, <<d, token>>, 1)
             ix0 == IF token \notin DOMAIN ix THEN Put(ix, token, {}) ELSE ix
             ix1 == Put(ix0, token, ix0[token] \cup {d})
         IN  IndexTokens_SetsOne(d, Tail(tokens), fr1, ix1)

RECURSIVE IndexTokens(_, _, _, _)
\* The body of index_document's loop over the tokens, from the first to the last.
IndexTokens(d, tokens, fr, ix) ==
    IF tokens = <<>> THEN [freq |-> fr, index |-> ix]
    ELSE LET token == Head(tokens)
             freq_tuple == <<d, token>>
             fr1 == IF freq_tuple \notin DOMAIN fr
                    THEN Put(fr, freq_tuple, 1)
                    ELSE Put(fr, freq_tuple, fr[freq_tuple] + 1)
             ix0 == IF token \notin DOMAIN ix THEN Put(ix, token, {}) ELSE ix
             ix1 == Put(ix0, token, ix0[token] \cup {d})
         IN  IndexTokens(d, Tail(tokens), fr1, ix1)

\* index_document without the contains_key test: a known id is indexed again.
index_document_Overwrites(a) ==
    LET done == IndexTokens(id(a), filter(fulltext(a)), freq, index)
    IN  [documents |-> Put(documents, id(a), a),
         freq |-> done.freq, index |-> done.index]

\* index_document without the final insert into documents.
index_document_NoInsert(a) ==
    IF id(a) \notin DOMAIN documents
    THEN LET done == IndexTokens(id(a), filter(fulltext(a)), freq, index)
         IN  [documents |-> documents, freq |-> done.freq, index |-> done.index]
    ELSE [documents |-> documents, freq |-> freq, index |-> index]

\* Index::index_document: the three tables after the call.
index_document(a) ==
    IF id(a) \notin DOMAIN documents
    THEN LET tokens == filter(fulltext(a))
             done == IndexTokens(id(a), tokens, freq, index)
         IN  [documents |-> Put(documents, id(a), a),
              freq |-> done.freq, index |-> done.index]
    ELSE [documents |-> documents, freq |-> freq, index |-> index]

\* log10 in millionths, exact on products: Log10Micro(a * b) is the sum of the
\* two, so two scores that are equal as real numbers are equal here.
RECURSIVE Log10Micro(_)
Log10Micro(n) ==
    IF n = 1 THEN 0
    ELSE IF n % 2 = 0 THEN 301030 + Log10Micro(n \div 2)
    ELSE IF n % 3 = 0 THEN 477121 + Log10Micro(n \div 3)
    ELSE IF n % 5 = 0 THEN 698970 + Log10Micro(n \div 5)
    ELSE 845098 + Log10Micro(n \div 7)

\* (total_docs / term_frequency).log10()
Idf(total_docs, term_frequency) == Log10Micro(total_docs) - Log10Micro(term_frequency)

RECURSIVE Score(_, _)
\* query_index's inner loop: the score of document d over the query tokens.
Score(d, normalized) ==
    IF normalized = <<>> THEN 0
    ELSE LET token == normalized[Len(normalized)]
             rest == Score(d, SubSeq(normalized, 1, Len(normalized) - 1))
         IN  IF <<d, token>> \in DOMAIN freq
             THEN rest + Idf(Cardinality(DOMAIN documents), freq[<<d, token>>])
                         * freq[<<d, token>>]
             ELSE rest

\* The comparator with its operands the other way round: a.1.partial_cmp(&b.1).
Compare_Ascending(a, b) ==
    IF a.score < b.score THEN "Less"
    ELSE IF a.score > b.score THEN "Greater"
    ELSE "Equal"

\* The comparator given to sort_by: b.1.partial_cmp(&a.1); no score is a NaN,
\* so the unwrap_or is never taken.
Compare(a, b) ==
    IF b.score < a.score THEN "Less"
    ELSE IF b.score > a.score THEN "Greater"
    ELSE "Equal"

RECURSIVE InsertTail(_, _)
\* One step of the stable sort: x moves left past every element it is Less than.
InsertTail(s, x) ==
    IF s = <<>> \/ Compare(x, s[Len(s)]) # "Less" THEN Append(s, x)
    ELSE Append(InsertTail(DropLast(s, 1), x), s[Len(s)])

RECURSIVE sort_by(_)
\* slice::sort_by, a stable sort.
sort_by(v) ==
    IF v = <<>> THEN <<>>
    ELSE InsertTail(sort_by(DropLast(v, 1)), v[Len(v)])

\* The posting sets query_index collects, one per query token the index knows.
Sets(normalized) ==
    LET Known(token) == token \in DOMAIN index
        known == SelectSeq(normalized, Known)
    IN  [i \in DOMAIN known |-> index[known[i]]]

\* The candidate set when a query token without postings counts as an empty
\* posting set: one unknown token empties the result.
Candidates_UnknownEmpties(normalized) ==
    IF normalized = <<>> \/ \E i \in DOMAIN normalized : normalized[i] \notin DOMAIN index
    THEN {}
    ELSE {b \in index[normalized[1]] :
             \A k \in 2..Len(normalized) : b \in index[normalized[k]]}

\* The candidate set without the filter: all of sets[0].
Candidates_FirstSet(normalized) ==
    IF \E i \in DOMAIN normalized : normalized[i] \in DOMAIN index
    THEN index[normalized[CHOOSE i \in DOMAIN normalized :
                              /\ normalized[i] \in DOMAIN index
                              /\ \A j \in 1..(i-1) : normalized[j] \notin DOMAIN index]]
    ELSE {}

\* The candidate set: sets[0] filtered by membership in all of sets[1..].
Candidates(normalized) ==
    LET sets == Sets(normalized)
    IN  IF Len(sets) = 0 THEN {}
        ELSE {b \in sets[1] : \A k \in 2..Len(sets) : b \in sets[k]}

\* Index::query_index, given the order in which the candidate HashSet is iterated.
query_index(query, order) ==
    LET normalized == filter(query)
        results == [i \in DOMAIN order |->
                       [id |-> order[i], score |-> Score(order[i], normalized)]]
        sorted == sort_by(results)
    IN  [i \in DOMAIN sorted |-> sorted[i].id]

----------------------------------------------------------------------------
\* The inputs of the model.

DocWords == { <<"?">>, <<"T","h","e">>, <<"C","a","t","s",",">>, <<"d","o","g">> }

QueryWords == { <<"t","h","e">>, <<"c","a","t">>, <<"d","o","g","s">> }

\* A title or an abstract of the feed: empty, or one word.
Texts == {<<>>} \cup DocWords

Queries == {Join(ws) : ws \in SeqsUpTo(MaxQueryWords, QueryWords)}

\* Every id a lookup may ask for: the ids of the feed and one that is never used.
LookupIds == {"0", Crc64("http://a/"), Crc64("http://b/"), "42"}

----------------------------------------------------------------------------
\* from_file's loop over the events of the reader, and the queries after it.

Init ==
    /\ pc = "loading"
    /\ article = <<>>
    /\ documents = [d \in {} |-> ArticleDefault]
    /\ freq = [k \in {} |-> 0]
    /\ index = [t \in {} |-> {}]
    /\ nrecords = 0
    /\ seenUrls = {}
    /\ dupUrl = FALSE
    /\ ret = [op |-> "new"]

\* Event::Start(b"doc"); the feed holds at most MaxRecords of them.
StartDoc ==
    /\ pc = "loading"
    /\ nrecords < MaxRecords
    /\ article' = <<ArticleDefault>>
    /\ ret' = [op |-> "read_event"]
    /\ UNCHANGED <<pc, documents, freq, index, nrecords, seenUrls, dupUrl>>

\* Event::Start(b"title")
StartTitle ==
    /\ pc = "loading"
    /\ \E t \in Texts :
          article' = IF article # <<>>
                     THEN <<[article[1] EXCEPT !.title = t]>> ELSE article
    /\ ret' = [op |-> "read_event"]
    /\ UNCHANGED <<pc, documents, freq, index, nrecords, seenUrls, dupUrl>>

\* Event::Start(b"abstract")
StartAbstract ==
    /\ pc = "loading"
    /\ \E t \in Texts :
          article' = IF article # <<>>
                     THEN <<[article[1] EXCEPT !.abstract = t]>> ELSE article
    /\ ret' = [op |-> "read_event"]
    /\ UNCHANGED <<pc, documents, freq, index, nrecords, seenUrls, dupUrl>>

\* Event::Start(b"url"): set_url unwraps Url::parse, so a text that is no URL
\* panics inside set_url.
StartUrl ==
    /\ pc = "loading"
    /\ \E u \in UrlTexts :
          IF article = <<>>
          THEN /\ ret' = [op |-> "read_event"]
               /\ UNCHANGED <<pc, article>>
          ELSE IF UrlParse(u) = ParseError
          THEN /\ pc' = "panicked"
               /\ ret' = [op |-> "panic", at |-> "set_url"]
               /\ UNCHANGED article
          ELSE /\ article' = <<set_url(article[1], UrlParse(u))>>
               /\ ret' = [op |-> "read_event"]
               /\ UNCHANGED pc
    /\ UNCHANGED <<documents, freq, index, nrecords, seenUrls, dupUrl>>

\* Event::End(b"doc"): article.unwrap() panics when no <doc> is open.
EndDoc ==
    /\ pc = "loading"
    /\ nrecords < MaxRecords
    /\ IF article = <<>>
       THEN /\ pc' = "panicked"
            /\ ret' = [op |-> "panic", at |-> "article.unwrap"]
            /\ UNCHANGED <<article, documents, freq, index, nrecords, seenUrls, dupUrl>>
       ELSE LET a == article[1]
                after == index_document(a)
            IN  /\ documents' = after.documents
                /\ freq' = after.freq
                /\ index' = after.index
                /\ article' = <<>>
                /\ nrecords' = nrecords + 1
                /\ seenUrls' = seenUrls \cup Range(a.url)
                /\ dupUrl' = (dupUrl \/ Range(a.url) \cap seenUrls # {})
                /\ ret' = [op |-> "index_document",
                           skipped |-> id(a) \in DOMAIN documents,
                           differs |-> /\ id(a) \in DOMAIN documents
                                       /\ fulltext(documents[id(a)]) # fulltext(a)]
                /\ UNCHANGED pc

\* Event::Eof: the loop ends and from_file returns Ok(index).
Eof ==
    /\ pc = "loading"
    /\ pc' = "ready"
    /\ article' = <<>>
    /\ ret' = [op |-> "from_file"]
    /\ UNCHANGED <<documents, freq, index, nrecords, seenUrls, dupUrl>>

\* Err(e) from the reader: from_file panics.
ReaderError ==
    /\ pc = "loading"
    /\ pc' = "panicked"
    /\ ret' = [op |-> "panic", at |-> "read_event"]
    /\ UNCHANGED <<article, documents, freq, index, nrecords, seenUrls, dupUrl>>

\* A caller runs query_index on the built index.  The candidates are collected
\* into a fresh HashSet whose iteration order is any order of its elements.
Query ==
    /\ pc = "ready"
    /\ \E q \in Queries :
       \E order \in Orders(Candidates(filter(q))) :
          ret' = [op |-> "query_index", query |-> q, normalized |-> filter(q),
                  results |-> query_index(q, order)]
    /\ UNCHANGED <<pc, article, documents, freq, index, nrecords, seenUrls, dupUrl>>

\* A caller looks a document up.
Document ==
    /\ pc = "ready"
    /\ \E d \in LookupIds : ret' = [op |-> "document", id |-> d, found |-> document(d)]
    /\ UNCHANGED <<pc, article, documents, freq, index, nrecords, seenUrls, dupUrl>>

\* A caller asks for the size.
Size ==
    /\ pc = "ready"
    /\ ret' = [op |-> "size", n |-> size]
    /\ UNCHANGED <<pc, article, documents, freq, index, nrecords, seenUrls, dupUrl>>

Next ==
    \/ StartDoc
    \/ StartTitle
    \/ StartAbstract
    \/ StartUrl
    \/ EndDoc
    \/ Eof
    \/ ReaderError
    \/ Query
    \/ Document
    \/ Size

Spec == Init /\ [][Next]_vars

TypeOK ==
    /\ pc \in {"loading", "ready", "panicked"}
    /\ Len(article) <= 1
    /\ nrecords \in 0..MaxRecords
    /\ DOMAIN documents \subseteq LookupIds
    /\ \A k \in DOMAIN freq : freq[k] \in Nat

----------------------------------------------------------------------------
\* Properties.

\* The number of times term t occurs in a token sequence.
Occurrences(t, tokens) == Cardinality({i \in DOMAIN tokens : tokens[i] = t})

\* C1: an index_document call (the step that closes a record) whose article has
\* an id that is already a key of documents leaves documents, freq and the
\* postings exactly as they were, whatever the text of the second article.
C1_IdempotentIngestion ==
    [][ ( /\ article # <<>>
          /\ nrecords' = nrecords + 1
          /\ id(article[1]) \in DOMAIN documents )
        => ( /\ documents' = documents
             /\ freq' = freq
             /\ index' = index
             /\ Cardinality(DOMAIN documents') = Cardinality(DOMAIN documents) ) ]_vars

\* A duplicate id with another text has just been skipped.
C1_Witness ==
    /\ ret.op = "index_document"
    /\ ret.skipped
    /\ ret.differs
    /\ nrecords > size

\* C2: (d, t) is a key of freq exactly when d is in the postings of t, and every
\* stored frequency is at least 1 and is the number of occurrences of t in the
\* normalized full text of d.
C2_TablesConsistent ==
    /\ \A k \in DOMAIN freq : k[2] \in DOMAIN index /\ k[1] \in index[k[2]]
    /\ \A t \in DOMAIN index : \A d \in index[t] : <<d, t>> \in DOMAIN freq
    /\ \A k \in DOMAIN freq :
          /\ freq[k] >= 1
          /\ k[1] \in DOMAIN documents
          /\ freq[k] = Occurrences(k[2], filter(fulltext(documents[k[1]])))

\* Some term occurs twice in a document, and two documents share a term.
C2_Witness ==
    /\ \E k \in DOMAIN freq : freq[k] = 2
    /\ \E t \in DOMAIN index : Cardinality(index[t]) = 2

\* C3: every id in a postings set or in a key of freq is a key of documents, in
\* every state between the calls of index_document, query_index and document.
C3_NoPartialDocument ==
    /\ \A t \in DOMAIN index : index[t] \subseteq DOMAIN documents
    /\ \A k \in DOMAIN freq : k[1] \in DOMAIN documents

\* A lookup of an id that the postings hold has found its document.
C3_Witness ==
    /\ ret.op = "document"
    /\ ret.found # <<>>
    /\ \E t \in DOMAIN index : ret.id \in index[t]

\* C4 as first stated: every returned document is in the postings of every
\* normalized query token.
C4_StrictAndAllTokens ==
    ret.op = "query_index" =>
        \A i \in DOMAIN ret.results : \A j \in DOMAIN ret.normalized :
            /\ ret.normalized[j] \in DOMAIN index
            /\ ret.results[i] \in index[ret.normalized[j]]

\* C4: every document id query_index returns is in the postings of each
\* normalized query token that has an entry in the postings; a query of two
\* indexed terms returns only documents that contain both.
C4_StrictAndKnownTokens ==
    ret.op = "query_index" =>
        \A i \in DOMAIN ret.results : \A j \in DOMAIN ret.normalized :
            ret.normalized[j] \in DOMAIN index
                => ret.results[i] \in index[ret.normalized[j]]

\* A query of two different indexed terms has returned a document and has left
\* out a document that holds only the first term.
C4_Witness ==
    /\ ret.op = "query_index"
    /\ Len(ret.normalized) = 2
    /\ ret.normalized[1] # ret.normalized[2]
    /\ \A j \in DOMAIN ret.normalized : ret.normalized[j] \in DOMAIN index
    /\ ret.results # <<>>
    /\ \E d \in index[ret.normalized[1]] : d \notin Range(ret.results)

\* The text holds nothing but stopwords separated by single spaces.
OnlyStopwords(text) ==
    \A i \in DOMAIN tokenize(text) : tokenize(text)[i] \in STOPWORDS

\* C5: query_index on the empty string, and on a string made only of stopwords,
\* returns the empty sequence, whatever was ingested.
C5_EmptyQueryEmptyResult ==
    (ret.op = "query_index" /\ (ret.query = <<>> \/ OnlyStopwords(ret.query)))
        => ret.results = <<>>

\* C6: filter of the empty string is the empty sequence, and filter never gives
\* an empty token.
C6_FilterEmptyInput ==
    ret.op = "query_index" =>
        /\ (ret.query = <<>> => Len(ret.normalized) = 0)
        /\ \A i \in DOMAIN ret.normalized : ret.normalized[i] # <<>>

\* C7: the sequence query_index returns is non-increasing in score, so of two
\* returned documents the one with the strictly higher score comes first.
C7_RankingOrder ==
    ret.op = "query_index" =>
        \A i, j \in DOMAIN ret.results :
            i < j => Score(ret.results[i], ret.normalized)
                        >= Score(ret.results[j], ret.normalized)

\* Two documents with different scores have been returned.
C7_Witness ==
    /\ ret.op = "query_index"
    /\ Len(ret.results) = 2
    /\ Score(ret.results[1], ret.normalized) > Score(ret.results[2], ret.normalized)

\* C8: the same query evaluated twice in a row on the unchanged index returns
\* the same ordered sequence of ids.
C8_DeterministicResults ==
    [][ ( /\ ret.op = "query_index"
          /\ ret'.op = "query_index"
          /\ ret'.query = ret.query
          /\ ixvars' = ixvars )
        => ret'.results = ret.results ]_vars

\* C9: a record whose URL cannot be parsed does not abort from_file.
C9_BadUrlIsSkipped ==
    ret.op = "panic" => ret.at # "set_url"

\* C10: when from_file returns Ok for n records no two of which carry the same
\* URL, the index holds n documents.
C10_NoSilentTruncation ==
    (pc = "ready" /\ ~dupUrl) => size = nrecords

\* The query tokens that have an entry in the postings.
KnownTokens(normalized) == {t \in Range(normalized) : t \in DOMAIN index}

\* The documents that are in the postings of every token of the set.
InAllPostings(tokens) == {d \in DOMAIN documents : \A t \in tokens : d \in index[t]}

\* The sequence back to front.
Reverse(s) == [i \in DOMAIN s |-> s[Len(s) + 1 - i]]

\* C11: the ids query_index returns are, each once, the intersection of the
\* posting sets of exactly the query tokens that have an entry in the postings,
\* and nothing when no token has one; tokens without an entry are ignored, and
\* the query tokens taken in the opposite order give the same set.
C11_TrueIntersection ==
    ret.op = "query_index" =>
        /\ Range(ret.results) =
              IF KnownTokens(ret.normalized) = {} THEN {}
              ELSE InAllPostings(KnownTokens(ret.normalized))
        /\ Len(ret.results) = Cardinality(Range(ret.results))
        /\ Candidates(Reverse(ret.normalized)) = Range(ret.results)

\* A query of two indexed terms, the first with fewer documents than the
\* second, has returned a document.
C11_Witness ==
    /\ ret.op = "query_index"
    /\ Len(ret.normalized) = 2
    /\ \A j \in DOMAIN ret.normalized : ret.normalized[j] \in DOMAIN index
    /\ index[ret.normalized[1]] # index[ret.normalized[2]]
    /\ index[ret.normalized[1]] \subseteq index[ret.normalized[2]]
    /\ ret.results # <<>>

====
